---- MODULE Spec2Model ----
(***************************************************************************)
(* ZP7: branchless PEXT/PDEP polyfill (src/zp7.c).                         *)
(*                                                                         *)
(* A uint64_t is modelled as the set of its set bit positions, a subset of *)
(* 0..63.  Bitwise operators are set operations, shifts move positions and *)
(* drop those that leave the word, and +, - and * are ripple-carry         *)
(* arithmetic modulo 2^64, so that an addition that carries differs from   *)
(* the bitwise OR.                                                         *)
(***************************************************************************)
EXTENDS Integers, FiniteSets, Sequences, TLC

VARIABLES build, fn, mask, value, pc, masks, popcnt, keep, a, i, sel, stat, moved, result

vars == <<build, fn, mask, value, pc, masks, popcnt, keep, a, i, sel, stat, moved, result>>

\* uint64_t
W == 64

\* #define N_BITS (6)
N_BITS == 6

\* Largest number of 0/1 boundaries in a mask or value built from cut points.
MaxCuts == 2

Bits == 0..(W - 1)

Zero == {}

One == {0}

AllOnes == Bits

----------------------------------------------------------------------------
\* C operators on uint64_t

And(x, y) == x \cap y

Or(x, y) == x \cup y

Xor(x, y) == (x \ y) \cup (y \ x)

Not(x) == Bits \ x

\* x << n for 0 <= n < 64
Shl(x, n) == {b + n : b \in x} \cap Bits

\* x >> n for 0 <= n < 64
Shr(x, n) == {b - n : b \in x} \cap Bits

RECURSIVE AddFrom(_, _, _, _)
AddFrom(x, y, b, carry) ==
    IF b >= W THEN {}
    ELSE LET xb == b \in x
             yb == b \in y
             s  == (xb # yb) # carry
             c  == (xb /\ yb) \/ (xb /\ carry) \/ (yb /\ carry)
         IN  (IF s THEN {b} ELSE {}) \cup AddFrom(x, y, b + 1, c)

\* x + y modulo 2^64
Add(x, y) == AddFrom(x, y, 0, FALSE)

\* x - y modulo 2^64
Sub(x, y) == Add(x, Add(Not(y), One))

RECURSIVE Mul(_, _)
\* x * y modulo 2^64
Mul(x, y) ==
    IF y = {} THEN {}
    ELSE LET j == CHOOSE b \in y : TRUE
         IN  Add(Shl(x, j), Mul(x, y \ {j}))

RECURSIVE Pow2(_)
Pow2(n) == IF n = 0 THEN 1 ELSE 2 * Pow2(n - 1)

RECURSIVE ToNat(_)
\* the number a word below 2^31 holds
ToNat(x) ==
    IF x = {} THEN 0
    ELSE LET b == CHOOSE c \in x : TRUE
         IN  Pow2(b) + ToNat(x \ {b})

\* the word holding a number below 2^31
FromNat(n) == {b \in 0..30 : (n \div Pow2(b)) % 2 = 1}

\* The values 1ULL << n can take.  For n >= 64 the shift is undefined in C:
\* the hardware either takes the count modulo 64 (x86, AArch64) or shifts
\* every bit out (counts are not reduced: 32-bit ARM, PowerPC).
ShlOutcomes(x, n) ==
    IF n < W THEN {Shl(x, n)} ELSE {Shl(x, n % W), Zero}

----------------------------------------------------------------------------
\* Intrinsics

\* _mm_clmulepi64_si128(x, y, 0): the 128-bit carry-less product of the low
\* quadwords
clmul(x, y) ==
    {k \in 0..(2 * W - 2) : Cardinality({j \in x : (k - j) \in y}) % 2 = 1}

\* _mm_cvtsi128_si64
cvtsi128_si64(x) == x \cap Bits

\* Mutant: the multiplier -1, which drops the shift left by one
neg_2_no_shift == Bits

\* _mm_cvtsi64_si128(-2LL)
neg_2 == Bits \ {0}

\* _popcnt64
popcnt64(x) == FromNat(Cardinality(x))

\* _bzhi_u64(x, index): the index is the low 8 bits of the operand; bits at
\* and above it are cleared, none when it is 64 or more.
bzhi_u64(x, index) ==
    LET n == ToNat(index \cap 0..7)
    IN  IF n >= W THEN x ELSE x \cap 0..(n - 1)

----------------------------------------------------------------------------
\* src/zp7.c

RECURSIVE prefix_sum_loop(_, _)
prefix_sum_loop(x, k) ==
    IF k >= N_BITS THEN x
    ELSE prefix_sum_loop(Xor(x, Shl(x, Pow2(k))), k + 1)

\* for (i = 0; i < N_BITS; i++) x ^= x << (1 << i);
prefix_sum(x) == prefix_sum_loop(x, 0)

\* Mutant: the prefix XOR without the shift, counting the bit itself
ppp_bit_shift_inclusive(m) == prefix_sum(m)

\* The 1-bit parallel prefix popcount, shifted left by 1, of the non-CLMUL
\* build
ppp_bit_shift(m) == Shl(prefix_sum(m), 1)

\* ... and of the HAS_CLMUL build
ppp_bit_clmul(m) == cvtsi128_si64(clmul(m, neg_2))

\* The SWAR constants of popcnt_64
m_1 == {b \in Bits : b % 2 = 0}

m_2 == {b \in Bits : b % 4 < 2}

m_4 == {b \in Bits : b % 8 < 4}

h_01 == {b \in Bits : b % 8 = 0}

\* Mutant: the byte sums are not masked with m_4
popcnt_64_unmasked(x) ==
    LET x1 == Sub(x, And(Shr(x, 1), m_1))
        x2 == Add(And(x1, m_2), And(Shr(x1, 2), m_2))
        x3 == Add(x2, Shr(x2, 4))
    IN  Shr(Mul(x3, h_01), 56)

popcnt_64(x) ==
    LET x1 == Sub(x, And(Shr(x, 1), m_1))
        x2 == Add(And(x1, m_2), And(Shr(x1, 2), m_2))
        x3 == And(Add(x2, Shr(x2, 4)), m_4)
    IN  Shr(Mul(x3, h_01), 56)

RECURSIVE ppp_loop(_, _, _, _)
\* The loop of zp7_ppp_64; in the HAS_CLMUL build m is the low quadword of
\* an XMM register whose high quadword stays zero.
ppp_loop(m, k, planes, has_clmul) ==
    IF k >= N_BITS THEN planes
    ELSE LET bit == IF has_clmul THEN ppp_bit_clmul(m) ELSE ppp_bit_shift(m)
         IN  ppp_loop(And(m, bit), k + 1, [planes EXCEPT ![k] = bit], has_clmul)

\* Mutant: the mask is not complemented, so set bits are counted
zp7_ppp_64_set_bits(m, has_clmul) ==
    [mask |-> m,
     ppp_bit |-> ppp_loop(m, 0, [k \in 0..(N_BITS - 1) |-> Zero], has_clmul)]

zp7_ppp_64(m, has_clmul) ==
    [mask |-> m,
     ppp_bit |-> ppp_loop(Not(m), 0, [k \in 0..(N_BITS - 1) |-> Zero], has_clmul)]

\* Mutant: a is not masked before the shifts
pext_premask_none(x, ms) == x

\* a &= masks->mask
pext_premask(x, ms) == And(x, ms.mask)

\* uint64_t shift = 1 << i
shift_of(k) == Pow2(k)

\* Mutant: the plane shifted back as zp7_pdep_pre_64 does
pext_bit_shifted(ms, k) == Shr(ms.ppp_bit[k], shift_of(k))

\* uint64_t bit = masks->ppp_bit[i]
pext_bit(ms, k) == ms.ppp_bit[k]

\* a = (a & ~bit) | ((a & bit) >> shift), returned with its two operands
pext_step(x, ms, k) ==
    LET bit == pext_bit(ms, k)
        s   == And(x, bit)
        st  == And(x, Not(bit))
        mv  == Shr(s, shift_of(k))
    IN  [sel |-> s, stat |-> st, moved |-> mv, a |-> Or(st, mv)]

RECURSIVE pext_loop_short(_, _, _)
\* Mutant: the loop stops before the shift by 32
pext_loop_short(x, ms, k) ==
    IF k >= N_BITS - 1 THEN x
    ELSE pext_loop_short(pext_step(x, ms, k).a, ms, k + 1)

RECURSIVE pext_loop(_, _, _)
pext_loop(x, ms, k) ==
    IF k >= N_BITS THEN x ELSE pext_loop(pext_step(x, ms, k).a, ms, k + 1)

zp7_pext_pre_64(x, ms) == pext_loop(pext_premask(x, ms), ms, 0)

zp7_pext_64(x, m, bld) == zp7_pext_pre_64(x, zp7_ppp_64(m, bld.clmul))

\* popcnt = HAS_POPCNT ? _popcnt64(masks->mask) : popcnt_64(masks->mask)
pdep_popcnt(ms, bld) ==
    IF bld.popcnt THEN popcnt64(ms.mask) ELSE popcnt_64(ms.mask)

\* Mutant: the regular (1 << pop) - 1
pop_mask_m1_plain(one, pop) == Sub(one, One)

\* pop_mask - 1, where pop_mask = (1ULL << popcnt) & ~(popcnt >> 6) and
\* one is a value of 1ULL << popcnt
pop_mask_m1(one, pop) == Sub(And(one, Not(Shr(pop, 6))), One)

\* Mutant: a is not masked before the shifts
pdep_keep_all(pop, bld) == {AllOnes}

\* The words zp7_pdep_pre_64 can AND a with before its loop
pdep_keep(pop, bld) ==
    IF bld.bzhi THEN {bzhi_u64(AllOnes, pop)}
    ELSE {pop_mask_m1(one, pop) : one \in ShlOutcomes(One, ToNat(pop))}

\* Mutant: the plane is not shifted back
pdep_bit_unshifted(ms, k) == ms.ppp_bit[k]

\* uint64_t bit = masks->ppp_bit[i] >> shift
pdep_bit(ms, k) == Shr(ms.ppp_bit[k], shift_of(k))

\* a = (a & ~bit) + ((a & bit) << shift), returned with its two operands
pdep_step(x, ms, k) ==
    LET bit == pdep_bit(ms, k)
        s   == And(x, bit)
        st  == And(x, Not(bit))
        mv  == Shl(s, shift_of(k))
    IN  [sel |-> s, stat |-> st, moved |-> mv, a |-> Add(st, mv)]

RECURSIVE pdep_loop(_, _, _)
pdep_loop(x, ms, k) ==
    IF k < 0 THEN x ELSE pdep_loop(pdep_step(x, ms, k).a, ms, k - 1)

\* The values zp7_pdep_pre_64 can return
zp7_pdep_pre_64(x, ms, bld) ==
    {pdep_loop(And(x, kp), ms, N_BITS - 1) : kp \in pdep_keep(pdep_popcnt(ms, bld), bld)}

zp7_pdep_64(x, m, bld) == zp7_pdep_pre_64(x, zp7_ppp_64(m, bld.clmul), bld)

----------------------------------------------------------------------------
\* Inputs

\* The word whose bits flip at every cut point in cuts, bit 0 being low
FromCuts(cuts, low) ==
    {b \in Bits : (Cardinality({c \in cuts : c <= b}) % 2 = 0) = low}

\* 0x5555..., 0x3333..., 0x0f0f..., 0x00ff..., 0x0000ffff..., 0x00000000ffffffff
Periodic(k) == {b \in Bits : (b \div Pow2(k)) % 2 = 0}

\* 0x123456789ABCDEF0
Sample ==
    {4, 5, 6, 7, 9, 10, 11, 12, 14, 15, 18, 19, 20, 21, 23, 26, 27, 28, 29, 31,
     35, 36, 39, 41, 42, 43, 44, 46, 49, 50, 52, 54, 58, 60, 61}

MaskCutPos == {1, 2, 7, 31, 32, 33, 62, 63}

CutSets(pos) == {c \in SUBSET pos : Cardinality(c) <= MaxCuts}

WithComplements(S) == S \cup {Not(x) : x \in S}

\* Every run of low bits (one of each population count 0..64), the words of
\* up to MaxCuts boundaries at MaskCutPos, the periodic words, the sample,
\* and the complements of all of them.
Masks ==
    WithComplements({FromCuts({c}, TRUE) : c \in 0..(W - 1)}
                    \cup {FromCuts(c, TRUE) : c \in CutSets(MaskCutPos)}
                    \cup {Periodic(k) : k \in 0..(N_BITS - 1)}
                    \cup {Sample})

Values == WithComplements({Zero, Sample, Periodic(0), Periodic(3)})

\* The values confined to the positions of mask m
ValuesIn(m) == {And(v, m) : v \in {AllOnes, Sample, Periodic(0)}}

\* The builds of the repository: zp7.c alone defines none of HAS_CLMUL,
\* HAS_BZHI, HAS_POPCNT; test.c defines all three.
Builds ==
    {[clmul |-> FALSE, bzhi |-> FALSE, popcnt |-> FALSE],
     [clmul |-> TRUE, bzhi |-> TRUE, popcnt |-> TRUE]}

----------------------------------------------------------------------------
\* One call of zp7_pext_64(value, mask) or zp7_pdep_64(value, mask)

Init ==
    /\ build \in Builds
    /\ fn \in {"pext", "pdep"}
    /\ mask \in Masks
    /\ value \in Values \cup ValuesIn(mask)
    /\ pc = "call"
    /\ masks = [mask |-> Zero, ppp_bit |-> [k \in 0..(N_BITS - 1) |-> Zero]]
    /\ popcnt = Zero
    /\ keep = Zero
    /\ a = value
    /\ i = 0
    /\ sel = Zero
    /\ stat = Zero
    /\ moved = Zero
    /\ result = Zero

\* zp7_masks_64_t masks = zp7_ppp_64(mask)
Ppp ==
    /\ pc = "call"
    /\ masks' = zp7_ppp_64(mask, build.clmul)
    /\ pc' = "pre"
    /\ UNCHANGED <<build, fn, mask, value, popcnt, keep, a, i, sel, stat, moved, result>>

PextPremask ==
    /\ pc = "pre"
    /\ fn = "pext"
    /\ a' = pext_premask(a, masks)
    /\ i' = 0
    /\ pc' = "loop"
    /\ UNCHANGED <<build, fn, mask, value, masks, popcnt, keep, sel, stat, moved, result>>

PextStep ==
    /\ pc = "loop"
    /\ fn = "pext"
    /\ i < N_BITS
    /\ LET r == pext_step(a, masks, i)
       IN  /\ a' = r.a
           /\ sel' = r.sel
           /\ stat' = r.stat
           /\ moved' = r.moved
    /\ i' = i + 1
    /\ UNCHANGED <<build, fn, mask, value, pc, masks, popcnt, keep, result>>

PextReturn ==
    /\ pc = "loop"
    /\ fn = "pext"
    /\ i >= N_BITS
    /\ result' = a
    /\ pc' = "done"
    /\ UNCHANGED <<build, fn, mask, value, masks, popcnt, keep, a, i, sel, stat, moved>>

PdepPremask ==
    /\ pc = "pre"
    /\ fn = "pdep"
    /\ popcnt' = pdep_popcnt(masks, build)
    /\ \E kp \in pdep_keep(popcnt', build) :
          /\ keep' = kp
          /\ a' = And(a, kp)
    /\ i' = N_BITS - 1
    /\ pc' = "loop"
    /\ UNCHANGED <<build, fn, mask, value, masks, sel, stat, moved, result>>

PdepStep ==
    /\ pc = "loop"
    /\ fn = "pdep"
    /\ i >= 0
    /\ LET r == pdep_step(a, masks, i)
       IN  /\ a' = r.a
           /\ sel' = r.sel
           /\ stat' = r.stat
           /\ moved' = r.moved
    /\ i' = i - 1
    /\ UNCHANGED <<build, fn, mask, value, pc, masks, popcnt, keep, result>>

PdepReturn ==
    /\ pc = "loop"
    /\ fn = "pdep"
    /\ i < 0
    /\ result' = a
    /\ pc' = "done"
    /\ UNCHANGED <<build, fn, mask, value, masks, popcnt, keep, a, i, sel, stat, moved>>

Next ==
    \/ Ppp
    \/ PextPremask
    \/ PextStep
    \/ PextReturn
    \/ PdepPremask
    \/ PdepStep
    \/ PdepReturn

Spec == Init /\ [][Next]_vars

----------------------------------------------------------------------------
\* Reference definitions

\* The number of set bits of m strictly below position b
Rank(b, m) == Cardinality({x \in m : x < b})

\* The word with exactly the low p bits set
LowBits(p) == {b \in Bits : b < p}

\* PEXT: the bits of v at the set positions of m, packed from bit 0
RefPext(v, m) == {Rank(b, m) : b \in And(v, m)}

\* PDEP: bit k of v placed at the k-th lowest set position of m
RefPdep(v, m) == {b \in m : Rank(b, m) \in v}

PextDone == pc = "done" /\ fn = "pext"

PdepDone == pc = "done" /\ fn = "pdep"

\* The mask selects some positions and skips some below its highest one
Scattered(m) == m # Zero /\ m # LowBits(Cardinality(m))

----------------------------------------------------------------------------
\* C1: zp7_pext_64(value, mask) is the reference PEXT of value and mask, and
\* every bit of it at or above position popcount(mask) is zero.
C1_PextIsReference ==
    PextDone =>
        /\ result = RefPext(value, mask)
        /\ And(result, Not(LowBits(Cardinality(mask)))) = Zero

C1_Witness ==
    /\ PextDone
    /\ Scattered(mask)
    /\ result # Zero
    /\ result # And(value, mask)
    /\ And(value, Not(mask)) # Zero

\* C2: zp7_pdep_64(value, mask) is the reference PDEP of value and mask, and
\* every bit of it at a position where mask is 0 is zero.
C2_PdepIsReference ==
    PdepDone =>
        /\ result = RefPdep(value, mask)
        /\ And(result, Not(mask)) = Zero

C2_Witness ==
    /\ PdepDone
    /\ Scattered(mask)
    /\ result # Zero
    /\ result # value
    /\ And(value, Not(LowBits(Cardinality(mask)))) # Zero

\* C3: for a value confined to the mask (value & mask == value),
\* zp7_pdep_64(zp7_pext_64(value, mask), mask) is value.
C3_RoundTrip ==
    (PextDone /\ And(value, mask) = value) =>
        zp7_pdep_64(result, mask, build) = {value}

C3_Witness ==
    /\ PextDone
    /\ And(value, mask) = value
    /\ Scattered(mask)
    /\ value # Zero
    /\ value # mask
    /\ result # value

\* C4: zp7_pext_64(zp7_pdep_64(value, mask), mask) is value restricted to its
\* low popcount(mask) bits, which is value itself when popcount(mask) is 64.
C4_PackingInverse ==
    PdepDone =>
        /\ zp7_pext_64(result, mask, build) = And(value, LowBits(Cardinality(mask)))
        /\ Cardinality(mask) = W => zp7_pext_64(result, mask, build) = value

C4_Witness ==
    /\ PdepDone
    /\ Scattered(mask)
    /\ result # Zero
    /\ And(value, LowBits(Cardinality(mask))) \notin {Zero, value}

\* C5: with the all-ones mask every plane of zp7_ppp_64 is 0, the pdep
\* pre-mask keeps all 64 bits, and zp7_pext_64 and zp7_pdep_64 return value.
C5_AllOnesMask ==
    mask = AllOnes =>
        /\ pc # "call" => \A k \in 0..(N_BITS - 1) : masks.ppp_bit[k] = Zero
        /\ (fn = "pdep" /\ pc \in {"loop", "done"}) => keep = AllOnes
        /\ pc = "done" => result = value

C5_Witness ==
    /\ mask = AllOnes
    /\ PdepDone
    /\ ~build.bzhi
    /\ value = Sample

\* C6: the shift-XOR prefix sum shifted left by one is the low 64 bits of the
\* carry-less product with -2, and zp7_ppp_64 returns the same mask and planes
\* with and without HAS_CLMUL.
C6_PrefixXorVariantsAgree ==
    pc = "pre" =>
        /\ \A x \in {mask, Not(mask), value} : ppp_bit_shift(x) = ppp_bit_clmul(x)
        /\ masks = zp7_ppp_64(mask, ~build.clmul)

C6_Witness ==
    /\ pc = "pre"
    /\ build.clmul
    /\ \A k \in 0..(N_BITS - 1) : masks.ppp_bit[k] # Zero

\* C7: bit b of plane i is set iff the digit of weight 2^i of the count of
\* unset mask bits strictly below b is 1; the count is in 0..63 and the
\* mask field is the input mask.
C7_PlaneInvariant ==
    pc # "call" =>
        /\ masks.mask = mask
        /\ \A b \in Bits :
              LET n == Rank(b, Not(mask))
              IN  /\ n \in 0..(W - 1)
                  /\ \A k \in 0..(N_BITS - 1) :
                        (b \in masks.ppp_bit[k]) <=> ((n \div Pow2(k)) % 2 = 1)

C7_Witness ==
    /\ pc = "pre"
    /\ Scattered(mask)
    /\ \A k \in 0..(N_BITS - 1) : masks.ppp_bit[k] # Zero

\* C8: for the population count p of the mask, ((1ULL << p) & ~(p >> 6)) - 1
\* is the word of the low p bits, as is what _bzhi_u64 keeps; p >> 6 is 1
\* exactly when p is 64 and 0 otherwise.
C8_PopMask ==
    (fn = "pdep" /\ pc \in {"loop", "done"}) =>
        LET p == ToNat(popcnt)
        IN  /\ p = Cardinality(mask)
            /\ keep = LowBits(p)
            /\ \A one \in ShlOutcomes(One, p) : pop_mask_m1(one, popcnt) = LowBits(p)
            /\ bzhi_u64(AllOnes, popcnt) = LowBits(p)
            /\ Shr(popcnt, 6) = (IF p = W THEN One ELSE Zero)

C8_Witness ==
    /\ fn = "pdep"
    /\ pc = "loop"
    /\ ~build.bzhi
    /\ ToNat(popcnt) = W
    /\ keep = AllOnes

\* C9: at every step of zp7_pdep_pre_64 the stationary bits and the moved
\* bits are disjoint and no moved bit leaves the word, so the sum is the
\* bitwise OR.
C9_PdepStepDisjoint ==
    (fn = "pdep" /\ pc = "loop" /\ i < N_BITS - 1) =>
        /\ And(stat, moved) = Zero
        /\ Cardinality(moved) = Cardinality(sel)
        /\ a = Or(stat, moved)

C9_Witness ==
    /\ fn = "pdep"
    /\ pc = "loop"
    /\ i < N_BITS - 1
    /\ stat # Zero
    /\ sel # Zero
    /\ moved # Zero

\* C10: at every step of zp7_pext_pre_64 the stationary bits and the moved
\* bits are disjoint and no moved bit leaves the word, so a keeps
\* popcount(value & mask) set bits.
C10_PextStepNoCollision ==
    (fn = "pext" /\ pc = "loop" /\ i > 0) =>
        /\ And(stat, moved) = Zero
        /\ Cardinality(moved) = Cardinality(sel)
        /\ Cardinality(a) = Cardinality(And(value, mask))

C10_Witness ==
    /\ fn = "pext"
    /\ pc = "loop"
    /\ i > 0
    /\ stat # Zero
    /\ sel # Zero
    /\ moved # Zero
    /\ And(value, Not(mask)) # Zero

====
